---- MODULE Spec2Model ----
(***************************************************************************)
(* Model of the lawnrouter profit-routing engine.                          *)
(*                                                                         *)
(* Part 1 (Spec): the chunked, concurrency-bounded matrix fetch of         *)
(* app/services/mapbox_matrix.py and the point where                       *)
(* solve_profit_vrp_with_mapbox consumes its result.                       *)
(* Part 2 (SpecRoute): the result assembler of                             *)
(* app/services/optimizer_mapbox.py (lines 151-222), walking a solver      *)
(* solution into routes.                                                   *)
(*                                                                         *)
(* Python lists are modelled as functions over 0..len-1 so that the index  *)
(* arithmetic of the source is kept as written.                            *)
(***************************************************************************)
EXTENDS Integers, Sequences, FiniteSets, TLC

VARIABLES
    \* ---- inputs of fetch_full_square_matrix_chunked ----
    n,                 \* len(coords)
    maxCoords,         \* max_coords_per_request
    maxConcurrent,     \* max_concurrent_requests
    hasToken,          \* bool(MAPBOX_ACCESS_TOKEN)
    faultAt,           \* index of the block request the provider answers badly (0: none)
    faultKind,         \* how the provider answers that request
    \* ---- state of one fetch_full_square_matrix_chunked call ----
    pc,                \* position of the calling coroutine
    tasks,             \* the list `tasks`, in creation order (1-based sequence of blocks)
    phase,             \* per task: "waiting", "inflight", "done", "failed"
    err,               \* per task: the exception it raised, "none" if none
    sem,               \* asyncio.Semaphore._value
    clientClosed,      \* the shared httpx.AsyncClient has been closed
    durations,         \* result matrix, Null = None
    distances,         \* result matrix, Null = None
    writes,            \* per cell: how many times the stitch loop assigned it
    sent,              \* number of client.get calls issued
    raised,            \* exception that left the call, "none" if none
    caller,            \* solve_profit_vrp_with_mapbox: "entered", "awaiting", "formulating", "failed"
    \* ---- inputs of solve_profit_vrp_with_mapbox ----
    stops,             \* list of Stop records (1-based sequence; node i is stops[i])
    num_days,          \* number of vehicles/days
    cost_model,        \* CostModel fields
    leg,               \* the matrix: meters and seconds of every leg between two nodes
    absent,            \* the matrix: cells (a, b) whose distance and duration are None
    max_minutes_per_day, \* the time budget of one vehicle/day
    \* ---- state of one solve_profit_vrp_with_mapbox run ----
    rpc,               \* position: "idle", "rates", "solve", "walk", "returned", "raised"
    rexc,              \* exception that left solve_profit_vrp_with_mapbox, "none" if none
    solution,          \* per vehicle (1-based: vehicle v is solution[v + 1]) its node path
    walk,              \* the locals of the per-vehicle loop
    results,           \* the list `results`
    \* ---- build_distance_matrix_miles (geo.py) ----
    geo_coords,        \* its argument: a list of points (1-based sequence)
    geo_mat,           \* whether it has been called, and the matrix it returned
    \* ---- POST /optimization/route-plans/{plan_id}/run for one plan ----
    plan_status,       \* RoutePlan.status as committed in the database
    handler,           \* per request: "pending", "rejected" (409), "queued"
    runs               \* per request: the position of the background run it started

fetchVars == <<n, maxCoords, maxConcurrent, hasToken, faultAt, faultKind, pc, tasks,
               phase, err, sem, clientClosed, durations, distances, writes, sent,
               raised, caller>>
routeVars == <<stops, num_days, cost_model, leg, absent, max_minutes_per_day, rpc, rexc,
               solution, walk, results>>
routeInputs == <<stops, num_days, cost_model, leg, absent, max_minutes_per_day>>
geoVars == <<geo_coords, geo_mat>>
planVars == <<plan_status, handler, runs>>
vars == <<fetchVars, routeVars, geoVars, planVars>>

\* ------------------------------------------------------------------ bounds
MaxN == 3
MaxK == 4
MaxConc == 2
\* most block requests of one call
MaxBlocks == 9

\* None
Null == -1

Min(a, b) == IF a < b THEN a ELSE b
Max(a, b) == IF a > b THEN a ELSE b

\* ------------------------------------------------------------ the provider
\* coords[i]: the coordinate at index i of the caller's list (distinct ids).
coords(i) == i + 1

\* Ground truth of the routing service for a pair of coordinates.
ProviderDuration(a, b) == 100 + 10 * a + b
ProviderDistance(a, b) == 200 + 10 * a + b

FaultKinds == {"status", "status204", "missing", "small"}

\* fetch_matrix without sources/destinations over all coordinates: the full matrix.
UnchunkedDurations(nn) ==
    [c \in (0 .. nn - 1) \X (0 .. nn - 1) |-> ProviderDuration(coords(c[1]), coords(c[2]))]
UnchunkedDistances(nn) ==
    [c \in (0 .. nn - 1) \X (0 .. nn - 1) |-> ProviderDistance(coords(c[1]), coords(c[2]))]

\* ------------------------------------------------------------ block layout
\* block = max(1, max_coords_per_request // 2)
BlockSizeCeil(k) == Max(1, (k + 1) \div 2)
BlockSize(k) == Max(1, k \div 2)

\* range(0, n, block) as an ascending sequence
BlockStarts(nn, b) ==
    [t \in 1 .. ((nn + b - 1) \div b) |-> (t - 1) * b]

\* o_end = min(n, o + block)
BlockEndOverlap(nn, b, o) == Min(nn, o + b + 1)
BlockEnd(nn, b, o) == Min(nn, o + b)

\* The nested loops that append one _do_block coroutine per (o, d) pair.
MakeTasks(nn, k) ==
    LET b  == BlockSize(k)
        st == BlockStarts(nn, b)
        nb == Len(st)
    IN  [t \in 1 .. nb * nb |->
            LET o == st[((t - 1) \div nb) + 1]
                d == st[((t - 1) % nb) + 1]
            IN  [o_start |-> o, o_end |-> BlockEnd(nn, b, o),
                 d_start |-> d, d_end |-> BlockEnd(nn, b, d)]]

NumTasks(nn, k) == Len(MakeTasks(nn, k))

\* call_coords = origins_block + dest_block
CallCoords(blk) ==
    LET ol == blk.o_end - blk.o_start
        dl == blk.d_end - blk.d_start
    IN  [t \in 0 .. ol + dl - 1 |->
            IF t < ol THEN coords(blk.o_start + t) ELSE coords(blk.d_start + (t - ol))]

CallLen(blk) == (blk.o_end - blk.o_start) + (blk.d_end - blk.d_start)

\* sources = list(range(0, len(origins_block)))
Sources(blk) == [i \in 0 .. (blk.o_end - blk.o_start) - 1 |-> i]

\* destinations_idx = list(range(len(origins_block), len(origins_block) + len(dest_block)))
DestinationsIdxNoOffset(blk) ==
    [j \in 0 .. (blk.d_end - blk.d_start) - 1 |-> j]
DestinationsIdx(blk) ==
    [j \in 0 .. (blk.d_end - blk.d_start) - 1 |-> (blk.o_end - blk.o_start) + j]


\* --------------------------------------------------------------- fetch_matrix
\* The provider's answer to the request of task t: a "missing" answer is a 200
\* whose JSON has no durations/distances, a "small" answer is a 200 whose rows
\* lack their last column, a "status" answer is a 500, a "status204" answer is
\* a 204 without content. After the shared
\* client has been closed under a request in flight, the request may also end
\* in a transport error.
AnswerKinds(t) ==
    (IF faultAt = t THEN {faultKind} ELSE {"ok"})
        \cup (IF clientClosed THEN {"transport"} ELSE {})

\* r.status_code of an answer
StatusCode(kind) ==
    CASE kind = "status"    -> 500
      [] kind = "status204" -> 204
      [] OTHER              -> 200

\* A status check that lets every 2xx pass.
StatusRejectedOutside2xx(code) == code < 200 \/ code >= 300

\* Line 65: if r.status_code != 200
StatusRejected(code) == code # 200

\* r.status_code != 200 -> MapboxMatrixError; else MatrixResult(data.get(...), ...)
FetchMatrix(cc, src, dst, kind) ==
    [raises  |-> IF kind # "transport" /\ StatusRejected(StatusCode(kind))
                 THEN "MapboxMatrixError"
                 ELSE IF kind = "transport" THEN "TransportError" ELSE "none",
     present |-> kind \in {"ok", "small"},
     rows    |-> Cardinality(DOMAIN src),
     cols    |-> IF kind = "small" THEN Cardinality(DOMAIN dst) - 1
                 ELSE Cardinality(DOMAIN dst),
     cc      |-> cc, src |-> src, dst |-> dst]

ResDuration(res, i, j) == ProviderDuration(res.cc[res.src[i]], res.cc[res.dst[j]])
ResDistance(res, i, j) == ProviderDistance(res.cc[res.src[i]], res.cc[res.dst[j]])

\* `res.durations` as a condition: a missing or empty list is falsy
Truthy(res) == res.present /\ res.rows > 0

\* ------------------------------------------------------------------ stitching
\* The cell of the full matrix that local cell (i, j) of a block is written to:
\* oi = o_start + i, dj = d_start + j.
StitchCell(blk, i, j) == <<blk.o_start + i, blk.d_start + j>>

\* Position of local cell (i, j) in the order of the two nested loops.
LoopPos(blk, i, j) == i * (blk.d_end - blk.d_start) + j

LocalCells(blk) ==
    (0 .. (blk.o_end - blk.o_start) - 1) \X (0 .. (blk.d_end - blk.d_start) - 1)

\* res.durations[i][j] raises IndexError
OutOfRange(res, i, j) == Truthy(res) /\ (i >= res.rows \/ j >= res.cols)

\* Loop positions at which the subscript raises.
BadPositions(blk, res) ==
    {LoopPos(blk, c[1], c[2]) : c \in {x \in LocalCells(blk) : OutOfRange(res, x[1], x[2])}}

StitchRaises(blk, res) == BadPositions(blk, res) # {}

\* Local cells assigned before the loop ends or raises.
Assigned(blk, res) ==
    {c \in LocalCells(blk) :
        \A p \in BadPositions(blk, res) : LoopPos(blk, c[1], c[2]) < p}

\* res.durations[i][j] / res.distances[i][j]
ResValue(res, which, i, j) ==
    IF which = "durations" THEN ResDuration(res, i, j) ELSE ResDistance(res, i, j)

\* The matrix `which` after the stitch loop of blk has run over res.
Stitched(mat, blk, res, which) ==
    LET asg == Assigned(blk, res)
        tgt == {StitchCell(blk, c[1], c[2]) : c \in asg}
        src(cell) == CHOOSE c \in asg : StitchCell(blk, c[1], c[2]) = cell
    IN  [cell \in DOMAIN mat |->
            IF cell \in tgt
            THEN (IF Truthy(res) THEN ResValue(res, which, src(cell)[1], src(cell)[2])
                  ELSE Null)
            ELSE mat[cell]]

Counted(w, blk, res) ==
    LET asg == Assigned(blk, res)
    IN  [cell \in DOMAIN w |->
            w[cell] + Cardinality({c \in asg : StitchCell(blk, c[1], c[2]) = cell})]


\* ----------------------------------------------------------- exceptions
\* The exception class behind each way a block task fails.
ExcType(cause) ==
    CASE cause = "chunk_too_large" -> "MapboxMatrixError"
      [] cause = "token_missing"   -> "MapboxMatrixError"
      [] cause = "status"          -> "MapboxMatrixError"
      [] cause = "status204"       -> "MapboxMatrixError"
      [] cause = "index"           -> "IndexError"
      [] cause = "client_closed"   -> "RuntimeError"
      [] cause = "transport"       -> "TransportError"
      [] OTHER                     -> "none"

TaskIds == DOMAIN tasks

InFlight == {t \in TaskIds : phase[t] = "inflight"}
Failed   == {t \in TaskIds : phase[t] = "failed"}

\* The assembler's variables while only the fetch is looked at.
\* build_distance_matrix_miles has not been called.
GeoIdle ==
    /\ geo_coords = <<>>
    /\ geo_mat = [called |-> FALSE, mat |-> <<>>]

\* No request for the plan has been made.
PlanIdle ==
    /\ plan_status = "draft"
    /\ handler = <<>>
    /\ runs = <<>>

AssemblerIdle ==
    /\ stops = <<>>
    /\ cost_model = [gas_price_per_gallon |-> 0, mpg |-> 1, maintenance_cost_per_mile |-> 0,
                     depreciation_cost_per_mile |-> 0, labor_cost_per_hour |-> 0]
    /\ leg = [m |-> 0, s |-> 0]
    /\ absent = {}
    /\ max_minutes_per_day = 0
    /\ rpc = "idle"
    /\ rexc = "none"
    /\ solution = <<>>
    /\ walk = [v |-> 0, idx |-> 0, prev_node |-> 0, order |-> 0, total_miles |-> 0,
               total_drive_minutes |-> 0, total_service_minutes |-> 0, total_revenue |-> 0,
               out_stops |-> <<>>]
    /\ results = <<>>

RouteIdle ==
    /\ num_days = 1
    /\ AssemblerIdle

\* The day counts a caller passes: none, or one.
DayCounts == {0, 1}

\* ------------------------------------------------------------------- Init
EmptyMatrix == [c \in {} |-> Null]

Init ==
    /\ n \in 0 .. MaxN
    /\ maxCoords \in 1 .. MaxK
    /\ NumTasks(n, maxCoords) <= MaxBlocks
    /\ maxConcurrent \in 1 .. MaxConc
    /\ hasToken \in BOOLEAN
    /\ faultAt \in 0 .. NumTasks(n, maxCoords)
    /\ faultKind \in (IF faultAt = 0 THEN {"status"} ELSE FaultKinds)
    /\ pc = "start"
    /\ tasks = <<>>
    /\ phase = <<>>
    /\ err = <<>>
    /\ sem = 0
    /\ clientClosed = FALSE
    /\ durations = EmptyMatrix
    /\ distances = EmptyMatrix
    /\ writes = EmptyMatrix
    /\ sent = 0
    /\ raised = "none"
    /\ caller = "entered"
    /\ num_days \in DayCounts
    /\ AssemblerIdle
    /\ GeoIdle
    /\ PlanIdle

inputVars == <<n, maxCoords, maxConcurrent, hasToken, faultAt, faultKind>>

\* --------------------------------------- entry of solve_profit_vrp_with_mapbox
\* An entry check that lets every day count pass.
DaysRejectedNever(d) == FALSE

\* Line 72 (optimizer.py line 66): if num_days < 1
DaysRejected(d) == d < 1

\* Lines 72-75: the check of the day count, ahead of the await of the fetch.
CheckDays ==
    /\ caller = "entered"
    /\ IF DaysRejected(num_days)
       THEN caller' = "failed" /\ rexc' = "ValueError"
       ELSE caller' = "awaiting" /\ UNCHANGED rexc
    /\ UNCHANGED <<inputVars, pc, tasks, phase, err, sem, clientClosed, durations,
                   distances, writes, sent, raised, routeInputs, rpc, solution, walk,
                   results, geoVars, planVars>>

\* ---------------------------------------------- fetch_full_square_matrix_chunked
\* Lines 99-109 and 144-155: the empty case, the matrices of None, the
\* semaphore, the shared client, the task list handed to asyncio.gather.
Call ==
    /\ pc = "start"
    /\ caller = "awaiting"
    /\ IF n = 0
       THEN /\ pc' = "returned"
            /\ UNCHANGED <<tasks, phase, err, sem, durations, distances, writes>>
       ELSE /\ pc' = "gather"
            /\ tasks' = MakeTasks(n, maxCoords)
            /\ phase' = [t \in DOMAIN MakeTasks(n, maxCoords) |-> "waiting"]
            /\ err' = [t \in DOMAIN MakeTasks(n, maxCoords) |-> "none"]
            /\ sem' = maxConcurrent
            /\ durations' = [c \in (0 .. n - 1) \X (0 .. n - 1) |-> Null]
            /\ distances' = [c \in (0 .. n - 1) \X (0 .. n - 1) |-> Null]
            /\ writes' = [c \in (0 .. n - 1) \X (0 .. n - 1) |-> 0]
    /\ UNCHANGED <<inputVars, clientClosed, sent, raised, caller, routeVars, geoVars, planVars>>

\* asyncio.Semaphore.locked()
SemLockedNever == FALSE
SemLocked == sem <= 0

\* asyncio.Semaphore wakes its waiters in the order they queued, and gather
\* starts the tasks in list order: task t enters once every earlier one has.
NextInLine(t) == \A u \in TaskIds : u < t => phase[u] # "waiting"

\* _do_block from `async with sem` up to the first suspension (lines 114-136
\* and fetch_matrix lines 46-64): the guard, the token check, client.get.
\* A task that raises here leaves the `async with` and gives its slot back.
DoBlockEnter(t) ==
    /\ pc \in {"gather", "raised"}
    /\ phase[t] = "waiting"
    /\ NextInLine(t)
    /\ ~SemLocked
    /\ LET cause ==
              IF CallLen(tasks[t]) > maxCoords THEN "chunk_too_large"
              ELSE IF ~hasToken THEN "token_missing"
              ELSE IF clientClosed THEN "client_closed"
              ELSE "none"
       IN  IF cause # "none"
           THEN /\ phase' = [phase EXCEPT ![t] = "failed"]
                /\ err' = [err EXCEPT ![t] = cause]
                /\ UNCHANGED <<sem, sent>>
           ELSE /\ phase' = [phase EXCEPT ![t] = "inflight"]
                /\ sem' = sem - 1
                /\ sent' = sent + 1
                /\ UNCHANGED err
    /\ UNCHANGED <<inputVars, pc, tasks, clientClosed, durations, distances, writes,
                   raised, caller, routeVars, geoVars, planVars>>

\* A semaphore whose slot is kept by the task that leaves the block.
ReleasedKept(s) == s

\* Line 114: leaving `async with sem`, by the end of the block or by an
\* exception, runs sem.release().
Released(s) == s + 1

\* _do_block from the response of client.get to the end of the stitch loop
\* (fetch_matrix lines 64-76, _do_block lines 138-142), then the release.
DoBlockResume(t) ==
    /\ phase[t] = "inflight"
    /\ \E kind \in AnswerKinds(t) :
         LET blk == tasks[t]
             res == FetchMatrix(CallCoords(blk), Sources(blk), DestinationsIdx(blk), kind)
         IN  IF res.raises # "none"
             THEN /\ phase' = [phase EXCEPT ![t] = "failed"]
                  /\ err' = [err EXCEPT ![t] = kind]
                  /\ UNCHANGED <<durations, distances, writes>>
             ELSE /\ durations' = Stitched(durations, blk, res, "durations")
                  /\ distances' = Stitched(distances, blk, res, "distances")
                  /\ writes' = Counted(writes, blk, res)
                  /\ IF StitchRaises(blk, res)
                     THEN /\ phase' = [phase EXCEPT ![t] = "failed"]
                          /\ err' = [err EXCEPT ![t] = "index"]
                     ELSE /\ phase' = [phase EXCEPT ![t] = "done"]
                          /\ UNCHANGED err
    /\ sem' = Released(sem)
    /\ UNCHANGED <<inputVars, pc, tasks, clientClosed, sent, raised, caller, routeVars, geoVars, planVars>>

\* await asyncio.gather(*tasks) lets the caller go on once every task is done.
GatherFirstDone == \E t \in TaskIds : phase[t] = "done"
GatherDone == \A t \in TaskIds : phase[t] = "done"

\* Lines 155-157: gather returns, the client is closed, the matrices are returned.
GatherReturn ==
    /\ pc = "gather"
    /\ GatherDone
    /\ pc' = "returned"
    /\ clientClosed' = TRUE
    /\ UNCHANGED <<inputVars, tasks, phase, err, sem, durations, distances, writes,
                   sent, raised, caller, routeVars, geoVars, planVars>>

\* Line 155 with a task that raised: gather (return_exceptions=False) re-raises
\* the exception at once, the `async with` of line 109 closes the client on
\* the way out, and the call raises. The other tasks are not awaited.
GatherRaise ==
    /\ pc = "gather"
    /\ \E t \in Failed :
         raised' = ExcType(err[t])
    /\ pc' = "raised"
    /\ clientClosed' = TRUE
    /\ UNCHANGED <<inputVars, tasks, phase, err, sem, durations, distances, writes,
                   sent, caller, routeVars, geoVars, planVars>>

\* -------------------------------------------------- solve_profit_vrp_with_mapbox
\* Lines 76-93: the awaited matrix arrives and the routing model is built on it.
Formulate ==
    /\ caller = "awaiting"
    /\ pc = "returned"
    /\ caller' = "formulating"
    /\ UNCHANGED <<inputVars, pc, tasks, phase, err, sem, clientClosed, durations,
                   distances, writes, sent, raised, routeVars, geoVars, planVars>>

\* Line 76: the await re-raises what the fetch raised.
FetchFailed ==
    /\ caller = "awaiting"
    /\ pc = "raised"
    /\ caller' = "failed"
    /\ UNCHANGED <<inputVars, pc, tasks, phase, err, sem, clientClosed, durations,
                   distances, writes, sent, raised, routeVars, geoVars, planVars>>

Next ==
    \/ CheckDays
    \/ Call
    \/ \E t \in TaskIds : DoBlockEnter(t)
    \/ \E t \in TaskIds : DoBlockResume(t)
    \/ GatherReturn
    \/ GatherRaise
    \/ Formulate
    \/ FetchFailed

Spec == Init /\ [][Next]_vars


\* ======================================================================
\* Properties of the chunked fetch (checked under Spec)
\* ======================================================================

AllCells == (0 .. n - 1) \X (0 .. n - 1)

\* Cells of the full matrix that belong to block task t.
BlockCells(t) ==
    (tasks[t].o_start .. tasks[t].o_end - 1) \X (tasks[t].d_start .. tasks[t].d_end - 1)

\* C1: with a provider that answers every request consistently and no failed
\* request, the matrix the chunked fetch returns equals, cell for cell and for
\* durations and distances alike, the matrix of one unchunked request.
C1_ChunkedEqualsUnchunked ==
    (pc = "returned" /\ n >= 1 /\ faultAt = 0) =>
        /\ durations = UnchunkedDurations(n)
        /\ distances = UnchunkedDistances(n)

\* A returned matrix that was stitched from nine single-node blocks.
C1_Witness ==
    /\ pc = "returned" /\ faultAt = 0
    /\ n = 3 /\ maxCoords = 2 /\ Len(tasks) = 9

\* C2 (as claimed): a block request that fails (non-200, or matrices too
\* small) does not abort the build: the call does not raise, and the matrix it
\* returns holds the provider's values in the cells of the other blocks and
\* None in the cells of the failed block.
C2_FailedBlockLeavesCellsAbsent ==
    (hasToken /\ maxCoords >= 2 /\ faultAt # 0 /\ faultKind \in {"status", "small"}) =>
        /\ pc # "raised"
        /\ pc = "returned" =>
              \A c \in AllCells :
                 IF c \in BlockCells(faultAt)
                 THEN durations[c] = Null /\ distances[c] = Null
                 ELSE /\ durations[c] = UnchunkedDurations(n)[c]
                      /\ distances[c] = UnchunkedDistances(n)[c]

\* C3: a matrix is handed over only when every block task has finished: once
\* the fetch has returned, and while the caller builds the routing model, no
\* block is waiting or in flight.
C3_NoPartialMatrix ==
    (pc = "returned" \/ caller = "formulating") =>
        \A t \in TaskIds : phase[t] = "done"

\* The caller formulates on a matrix that took nine block requests.
C3_Witness ==
    caller = "formulating" /\ Len(tasks) = 9 /\ sent = 9

\* C4: the number of block requests in flight never exceeds
\* max_concurrent_requests.
C4_BoundedInFlight ==
    Cardinality(InFlight) <= maxConcurrent

\* The limit is reached while another block is still queued on the semaphore.
C4_Witness ==
    /\ maxConcurrent = 2
    /\ Cardinality(InFlight) = 2
    /\ \E t \in TaskIds : phase[t] = "waiting"

\* Every block pair stays within the request limit, the guard does not fire and
\* the blocks cover the node pairs; a returned call has requested every block.
BlocksFit ==
    /\ \A t \in TaskIds :
          /\ CallLen(tasks[t]) <= maxCoords
          /\ err[t] # "chunk_too_large"
    /\ pc # "start" =>
          \A c \in AllCells : \E t \in TaskIds : c \in BlockCells(t)
    /\ pc = "returned" => sent = Len(tasks)

\* C5 (as claimed): for every n >= 1 and every K >= 1 the chosen block size
\* keeps each block pair within K coordinates, so the guard never fires.
C5_Original == (n >= 1) => BlocksFit

\* C5 (amended): the same for every K >= 2.
C5_BlocksFitFromTwo == (n >= 1 /\ maxCoords >= 2) => BlocksFit

\* An odd limit, nine blocks, all of them requested and stitched.
C5_Witness ==
    /\ maxCoords = 3 /\ n = 3 /\ pc = "returned" /\ sent = 9

\* C6: every cell of the result matrices is assigned at most once over all
\* block tasks.
C6_WriteOnce ==
    \A c \in DOMAIN writes : writes[c] <= 1

\* All nine cells of a 3x3 matrix written, each by its own block.
C6_Witness ==
    /\ n = 3 /\ Len(tasks) >= 4
    /\ \A t \in TaskIds : phase[t] = "done"
    /\ \A c \in AllCells : writes[c] = 1

\* C7 (as claimed): without an access token the fetch raises
\* MapboxMatrixError before any request is sent, for every coordinate list,
\* the empty one included, and never returns a matrix.
C7_MissingTokenRaises ==
    ~hasToken =>
        /\ sent = 0
        /\ pc # "returned"
        /\ pc = "raised" => raised = "MapboxMatrixError"

\* C8 (as claimed): the failure of one block never makes a block fail whose
\* own request would succeed.
C8_IndependentBlocksComplete ==
    (hasToken /\ maxCoords >= 2) =>
        \A t \in TaskIds : t # faultAt => phase[t] # "failed"


\* ======================================================================
\* Part 2: solve_profit_vrp_with_mapbox, from the solver's answer to the
\* returned routes (optimizer_mapbox.py lines 147-222; optimizer.py lines
\* 143-219 walk the solution the same way).
\*
\* Units: money in millionths of a dollar (a Decimal with six places), miles in
\* thousandths, rates per mile in thousandths of a dollar.
\* ======================================================================
MaxStops == 2
MaxDays == 2

Cent == 10000

\* The service plans the stop list is drawn from (tasks.py lines 20-35 build
\* one Stop per active ServicePlan row: two plans of one location give two
\* stops with the same location_id).
StopCatalog ==
    { [location_id |-> "L1", revenue |-> 35010000, service_minutes |-> 45],
      [location_id |-> "L1", revenue |-> 20000000, service_minutes |-> 30],
      [location_id |-> "L2", revenue |-> 12345000, service_minutes |-> 30] }

\* gas 3.00 $/gal at 12 mpg plus 0.10 $/mile maintenance; labor 18.30 or
\* 18.00 $/hour. The values divide exactly, as Decimal does for them.
CostModels ==
    { [gas_price_per_gallon |-> 3000, mpg |-> 12, maintenance_cost_per_mile |-> 100,
       depreciation_cost_per_mile |-> 0, labor_cost_per_hour |-> h] :
        h \in {18300000, 18000000} }

\* max_minutes_per_day: a working day, or one hour.
Budgets == {480, 60}

\* Every leg of the matrix: a stop at the depot's door, or five miles away.
Legs == { [m |-> 0, s |-> 0], [m |-> 8047, s |-> 610] }

\* cost_per_mile() with the maintenance rate subtracted instead of added.
CostPerMileLessMaintenance(cm) ==
    (cm.gas_price_per_gallon \div cm.mpg) - cm.maintenance_cost_per_mile
        + cm.depreciation_cost_per_mile

\* CostModel.cost_per_mile()
CostPerMile(cm) ==
    (cm.gas_price_per_gallon \div cm.mpg) + cm.maintenance_cost_per_mile
        + cm.depreciation_cost_per_mile

\* CostModel.labor_cost_per_minute()
LaborCostPerMinute(cm) == cm.labor_cost_per_hour \div 60

\* _meters_to_miles: m / 1609.344, kept to the thousandth of a mile
\* (1000 / 1609.344 = 15625 / 25146)
MetersToMiles(m) == (m * 15625) \div 25146

\* _sec_to_min_ceil: ceil(s / 60.0)
SecToMinCeil(sec) == (sec + 59) \div 60

\* Decimal.quantize(Decimal("0.01")) under the default context: ROUND_HALF_EVEN
QuantizeCents(x) ==
    LET lo == x \div Cent
        r  == x % Cent
    IN  IF 2 * r < Cent THEN lo * Cent
        ELSE IF 2 * r > Cent THEN (lo + 1) * Cent
        ELSE IF lo % 2 = 0 THEN lo * Cent ELSE (lo + 1) * Cent

\* matrix.distances[a][b], matrix.durations[a][b]
MatrixDistance(a, b) ==
    IF <<a, b>> \in absent THEN Null ELSE IF a = b THEN 0 ELSE leg.m
MatrixDuration(a, b) ==
    IF <<a, b>> \in absent THEN Null ELSE IF a = b THEN 0 ELSE leg.s

NodesOf(st) == 1 .. Len(st)

\* Node paths without a repeated node.
Paths(st) ==
    {p \in UNION {[1 .. k -> NodesOf(st)] : k \in 0 .. Len(st)} :
        \A i, j \in DOMAIN p : i # j => p[i] # p[j]}

\* Lines 96-105 and 113-120: the value both callbacks return for a None cell.
Unroutable == 1000000000

\* time_cb with a None cell taken as zero minutes, as the route walk does.
TimeCbZero(st, a, b) ==
    (IF MatrixDuration(a, b) = Null THEN 0 ELSE SecToMinCeil(MatrixDuration(a, b)))
        + (IF b = 0 THEN 0 ELSE st[b].service_minutes)

\* time_cb (lines 113-120): drive minutes of the leg plus the service minutes
\* of the node it arrives at; the depot has none.
TimeCb(st, a, b) ==
    IF MatrixDuration(a, b) = Null THEN Unroutable
    ELSE SecToMinCeil(MatrixDuration(a, b)) + (IF b = 0 THEN 0 ELSE st[b].service_minutes)

\* The legs of a path, from the depot and back to it; the legs of an unused
\* vehicle are the single arc from its start to its end, both the depot.
RECURSIVE ArcsFrom(_, _)
ArcsFrom(a, p) ==
    IF p = <<>> THEN <<<<a, 0>>>> ELSE <<<<a, Head(p)>>>> \o ArcsFrom(Head(p), Tail(p))

Arcs(p) == ArcsFrom(0, p)

RECURSIVE PathTime(_, _)
PathTime(st, arcs) ==
    IF arcs = <<>> THEN 0
    ELSE TimeCb(st, Head(arcs)[1], Head(arcs)[2]) + PathTime(st, Tail(arcs))

\* A Time dimension without a capacity.
WithinDayUnbounded(st, p) == PathTime(st, Arcs(p)) >= 0

\* The "Time" dimension (lines 123-129): the cumulated transit of a vehicle,
\* which starts at zero, stays within the capacity max_minutes_per_day.
WithinDay(st, p) == PathTime(st, Arcs(p)) <= max_minutes_per_day

\* What the solver may return: one path per vehicle, each node on at most one,
\* each path within the Time dimension.
Solutions(st, days) ==
    {sol \in [1 .. days -> Paths(st)] :
        /\ \A v, w \in 1 .. days : v # w =>
            {sol[v][i] : i \in DOMAIN sol[v]} \cap {sol[w][i] : i \in DOMAIN sol[w]} = {}
        /\ \A v \in 1 .. days : WithinDay(st, sol[v])}

\* Locals at the top of the loop body for vehicle v (lines 154-162).
WalkStart(v) ==
    [v |-> v, idx |-> 0, prev_node |-> 0, order |-> 0, total_miles |-> 0,
     total_drive_minutes |-> 0, total_service_minutes |-> 0, total_revenue |-> 0,
     out_stops |-> <<>>]

\* A fetch that has returned to its caller.
FetchDone ==
    /\ n = 0 /\ maxCoords = 1 /\ maxConcurrent = 1 /\ hasToken = TRUE
    /\ faultAt = 0 /\ faultKind = "status"
    /\ pc = "returned" /\ tasks = <<>> /\ phase = <<>> /\ err = <<>> /\ sem = 0
    /\ clientClosed = TRUE
    /\ durations = EmptyMatrix /\ distances = EmptyMatrix /\ writes = EmptyMatrix
    /\ sent = 0 /\ raised = "none" /\ caller = "formulating"

\* The fetch has delivered the matrix and the locals of the run are fresh.
RunStart ==
    /\ rpc = "rates"
    /\ rexc = "none"
    /\ solution = <<>>
    /\ walk = WalkStart(0)
    /\ results = <<>>
    /\ FetchDone
    /\ GeoIdle
    /\ PlanIdle

RouteInit ==
    /\ stops \in UNION {[1 .. k -> StopCatalog] : k \in 0 .. MaxStops}
    /\ num_days \in 1 .. MaxDays
    /\ cost_model \in CostModels
    /\ leg \in Legs
    /\ absent \in {{}, {<<1, 0>>}, {<<0, 1>>}}
    /\ max_minutes_per_day \in Budgets
    /\ RunStart


\* Lines 84-86: cpm = float(cost_model.cost_per_mile()) and the labor rate;
\* Decimal division by a zero mpg raises decimal.DivisionByZero (a
\* ZeroDivisionError), which nothing catches.
CostPerMileRaises(cm) == cm.mpg = 0

ReadRates ==
    /\ rpc = "rates"
    /\ IF CostPerMileRaises(cost_model)
       THEN rpc' = "raised" /\ rexc' = "ZeroDivisionError"
       ELSE rpc' = "solve" /\ UNCHANGED rexc
    /\ UNCHANGED <<routeInputs, solution, walk, results, fetchVars, geoVars, planVars>>

\* Line 147: an exception inside routing.SolveWithParameters leaves the call.
SolveCrash ==
    /\ rpc = "solve"
    /\ rpc' = "raised"
    /\ rexc' = "SolverError"
    /\ UNCHANGED <<routeInputs, solution, walk, results, fetchVars, geoVars, planVars>>

\* Lines 147-149: the solver's answer; no solution returns [].
SolveNone ==
    /\ rpc = "solve"
    /\ rpc' = "returned"
    /\ solution' = <<>>
    /\ UNCHANGED <<routeInputs, walk, results, fetchVars, rexc, geoVars, planVars>>

SolveFound ==
    /\ rpc = "solve"
    /\ \E sol \in Solutions(stops, num_days) : solution' = sol
    /\ rpc' = "walk"
    /\ walk' = WalkStart(0)
    /\ UNCHANGED <<routeInputs, results, fetchVars, rexc, geoVars, planVars>>

\* The path of the vehicle being walked, and routing.IsEnd(idx).
CurPath == solution[walk.v + 1]
IsEnd == walk.idx = Len(CurPath) + 1

\* manager.IndexToNode(solution.Value(routing.NextVar(idx)))
NextNode == IF walk.idx + 1 <= Len(CurPath) THEN CurPath[walk.idx + 1] ELSE 0

\* seg_miles / seg_drive of lines 170-174: a None cell counts as 0
SegMiles(a, b) ==
    IF MatrixDistance(a, b) # Null THEN MetersToMiles(MatrixDistance(a, b)) ELSE 0
SegDrive(a, b) ==
    IF MatrixDuration(a, b) # Null THEN SecToMinCeil(MatrixDuration(a, b)) ELSE 0

\* The body of the while loop (lines 165-194) on the locals w, for the node
\* the solution gives next.
LoopBody(w, node) ==
    LET prev == w.prev_node
    IN  IF node # 0
        THEN LET stop == stops[node] IN
             [w EXCEPT
                !.order = @ + 1,
                !.out_stops = Append(@,
                    [location_id |-> stop.location_id,
                     order |-> w.order + 1,
                     revenue |-> stop.revenue,
                     segment_miles |-> SegMiles(prev, node),
                     segment_drive_minutes |-> SegDrive(prev, node),
                     service_minutes |-> stop.service_minutes]),
                !.total_miles = @ + SegMiles(prev, node),
                !.total_drive_minutes = @ + SegDrive(prev, node),
                !.total_service_minutes = @ + stop.service_minutes,
                !.total_revenue = @ + stop.revenue,
                !.prev_node = node,
                !.idx = @ + 1]
        ELSE [w EXCEPT !.prev_node = node, !.idx = @ + 1]

\* One iteration of the while loop (lines 164-194).
WalkStep ==
    /\ rpc = "walk"
    /\ ~IsEnd
    /\ walk' = LoopBody(walk, NextNode)
    /\ UNCHANGED <<routeInputs, rpc, solution, results, fetchVars, rexc, geoVars, planVars>>

\* An insertion that puts a route before the earlier routes of equal profit.
RECURSIVE InsertByProfitUnstable(_, _)
InsertByProfitUnstable(r, sorted) ==
    IF sorted = <<>> THEN <<r>>
    ELSE IF Head(sorted).total_profit > r.total_profit
         THEN <<Head(sorted)>> \o InsertByProfitUnstable(r, Tail(sorted))
         ELSE <<r>> \o sorted

\* results.sort(key=lambda r: r.total_profit, reverse=True): a stable sort
RECURSIVE InsertByProfit(_, _)
InsertByProfit(r, sorted) ==
    IF sorted = <<>> THEN <<r>>
    ELSE IF Head(sorted).total_profit >= r.total_profit
         THEN <<Head(sorted)>> \o InsertByProfit(r, Tail(sorted))
         ELSE <<r>> \o sorted

RECURSIVE SortByProfitDesc(_)
SortByProfitDesc(rs) ==
    IF rs = <<>> THEN <<>>
    ELSE InsertByProfit(rs[Len(rs)], SortByProfitDesc(SubSeq(rs, 1, Len(rs) - 1)))

\* Lines 196-219: the leg back to the depot, the costs, the RouteOut.
RouteOut(w) ==
    LET back        == w.prev_node # 0
        total_miles == w.total_miles + (IF back THEN SegMiles(w.prev_node, 0) ELSE 0)
        total_drive == w.total_drive_minutes
                         + (IF back THEN SegDrive(w.prev_node, 0) ELSE 0)
        travel_cost == total_miles * CostPerMile(cost_model)
        labor_cost  == (total_drive + w.total_service_minutes)
                         * LaborCostPerMinute(cost_model)
        total_cost   == travel_cost + labor_cost
        total_profit == w.total_revenue - total_cost
    IN  [vehicle_index |-> w.v,
         stops |-> w.out_stops,
         total_miles |-> total_miles,
         total_drive_minutes |-> total_drive,
         total_service_minutes |-> w.total_service_minutes,
         total_revenue |-> QuantizeCents(w.total_revenue),
         total_cost |-> QuantizeCents(total_cost),
         total_profit |-> QuantizeCents(total_profit)]

\* The locals of the next vehicle with the totals and the stop list of the
\* previous one kept.
NextVehicleNoReset(w) == [w EXCEPT !.v = @ + 1, !.idx = 0, !.prev_node = 0]

\* Lines 154-162: every vehicle starts its loop body with fresh locals.
NextVehicle(w) == WalkStart(w.v + 1)

\* A list that takes only the routes that visit a stop.
AppendedIfStops(rs, r) == IF r.stops = <<>> THEN rs ELSE Append(rs, r)

\* Lines 208-219: results.append(RouteOut(...)), once per vehicle.
Appended(rs, r) == Append(rs, r)

\* The end of one vehicle's loop body; after the last vehicle, lines 221-222:
\* the sort and the return.
CloseRoute ==
    /\ rpc = "walk"
    /\ IsEnd
    /\ LET appended == Appended(results, RouteOut(walk))
       IN  IF walk.v + 1 < num_days
           THEN /\ results' = appended
                /\ walk' = NextVehicle(walk)
                /\ UNCHANGED rpc
           ELSE /\ results' = SortByProfitDesc(appended)
                /\ rpc' = "returned"
                /\ UNCHANGED walk
    /\ UNCHANGED <<routeInputs, solution, fetchVars, rexc, geoVars, planVars>>

RouteNext ==
    \/ ReadRates
    \/ SolveCrash
    \/ SolveNone
    \/ SolveFound
    \/ WalkStep
    \/ CloseRoute

SpecRoute == RouteInit /\ [][RouteNext]_vars

\* ======================================================================
\* Properties of the returned routes (checked under SpecRoute)
\* ======================================================================

\* All stop records of the returned routes, as (route position, record position).
StopRecords ==
    {<<r, k>> \in (1 .. Len(results)) \X (1 .. MaxStops + 1) : k <= Len(results[r].stops)}

RecordId(x) == results[x[1]].stops[x[2]].location_id

\* C9 (as claimed): over all returned routes each location_id is in at most
\* one stop record, and every reported location_id is the id of an input stop.
C9_LocationIdsUnique ==
    rpc = "returned" =>
        /\ \A x, y \in StopRecords : x # y => RecordId(x) # RecordId(y)
        /\ \A x \in StopRecords : \E i \in DOMAIN stops : stops[i].location_id = RecordId(x)

\* C10 (as claimed): for every returned route the reported total_profit is
\* the reported total_revenue minus the reported total_cost, to the cent.
C10_ProfitIsRevenueMinusCost ==
    rpc = "returned" =>
        \A r \in DOMAIN results :
            results[r].total_profit = results[r].total_revenue - results[r].total_cost

\* ----------------------------------------------------------------------
\* The route a vehicle drives: from the depot through its path and back.
\* ----------------------------------------------------------------------
RECURSIVE SumSeq(_)
SumSeq(q) == IF q = <<>> THEN 0 ELSE Head(q) + SumSeq(Tail(q))

\* The legs of a path, the return to the depot included; an unused vehicle
\* drives none.
PathLegs(p) ==
    IF p = <<>> THEN <<>>
    ELSE [i \in 1 .. Len(p) + 1 |->
            <<IF i = 1 THEN 0 ELSE p[i - 1], IF i <= Len(p) THEN p[i] ELSE 0>>]

\* Miles and minutes of the road between two nodes, whether or not the
\* provider reported the cell.
RoadMiles(a, b) == IF a = b THEN 0 ELSE MetersToMiles(leg.m)
RoadMinutes(a, b) == IF a = b THEN 0 ELSE SecToMinCeil(leg.s)

DrivenMiles(p) == SumSeq([i \in DOMAIN PathLegs(p) |-> RoadMiles(PathLegs(p)[i][1], PathLegs(p)[i][2])])
DrivenMinutes(p) == SumSeq([i \in DOMAIN PathLegs(p) |-> RoadMinutes(PathLegs(p)[i][1], PathLegs(p)[i][2])])
ServiceMinutes(p) == SumSeq([i \in DOMAIN p |-> stops[p[i]].service_minutes])
PathRevenue(p) == SumSeq([i \in DOMAIN p |-> stops[p[i]].revenue])

\* Cost of driving and working a path at the cost model's exact rates.
DrivenCost(p) ==
    DrivenMiles(p) * CostPerMile(cost_model)
        + (DrivenMinutes(p) + ServiceMinutes(p)) * LaborCostPerMinute(cost_model)

\* C11 (as claimed): the total_cost of every returned route is the cost of
\* all the legs its vehicle drives, the leg back to the depot included and a
\* leg with an absent cell at its real length, plus the labor of all drive
\* and service minutes, to the cent.
C11_CostCoversEveryLeg ==
    (rpc = "returned" /\ solution # <<>>) =>
        \A r \in DOMAIN results :
            results[r].total_cost
                = QuantizeCents(DrivenCost(solution[results[r].vehicle_index + 1]))

\* ======================================================================
\* The objective handed to the solver (optimizer_mapbox.py lines 84-137,
\* optimizer.py lines 83-135), in whole cents.
\* ======================================================================

\* int(round(x * 100)) of a dollar amount x held in millionths
RoundToCents(x) == QuantizeCents(x) \div Cent

\* travel_cost_cb: the arc cost, int(round(miles * cpm * 100))
TravelCostCb(a, b) ==
    IF MatrixDistance(a, b) = Null THEN Unroutable
    ELSE RoundToCents(MetersToMiles(MatrixDistance(a, b)) * CostPerMile(cost_model))

\* labor_per_min_cents = int(round(labor_per_min * 100)), the span cost
\* coefficient of the Time dimension
LaborPerMinCents == RoundToCents(LaborCostPerMinute(cost_model))

\* penalty = int(round(float(stop.revenue) * 100)), paid when the stop is skipped
PenaltyCents(stop) == RoundToCents(stop.revenue)

RECURSIVE ArcCost(_)
ArcCost(arcs) ==
    IF arcs = <<>> THEN 0
    ELSE TravelCostCb(Head(arcs)[1], Head(arcs)[2]) + ArcCost(Tail(arcs))

Visited(sol) == UNION {{sol[v][i] : i \in DOMAIN sol[v]} : v \in DOMAIN sol}

RECURSIVE SkipPenalty(_, _, _)
SkipPenalty(st, sol, i) ==
    IF i > Len(st) THEN 0
    ELSE (IF i \in Visited(sol) THEN 0 ELSE PenaltyCents(st[i])) + SkipPenalty(st, sol, i + 1)

RECURSIVE LongestDay(_, _, _)
LongestDay(st, sol, v) ==
    IF v > Len(sol) THEN 0
    ELSE Max(PathTime(st, Arcs(sol[v])), LongestDay(st, sol, v + 1))

RECURSIVE RoutesCost(_, _, _)
RoutesCost(st, sol, v) ==
    IF v > Len(sol) THEN 0
    ELSE ArcCost(Arcs(sol[v])) + LaborPerMinCents * PathTime(st, Arcs(sol[v]))
            + RoutesCost(st, sol, v + 1)

\* optimizer.py line 122 adds SetGlobalSpanCostCoefficient(10) on the Time
\* dimension (every vehicle starts at 0, so the global span is the longest
\* day); optimizer_mapbox.py has no such term.
GlobalSpanCoefficients == {0, 10}

\* The objective of an assignment: arc costs, span cost of the Time dimension,
\* the penalties of the skipped stops, and the global span term.
Objective(st, sol, coef) ==
    RoutesCost(st, sol, 1) + SkipPenalty(st, sol, 1) + coef * LongestDay(st, sol, 1)

Minimizers(st, days, coef) ==
    {sol \in Solutions(st, days) :
        \A other \in Solutions(st, days) : Objective(st, sol, coef) <= Objective(st, other, coef)}

\* ======================================================================
\* One stop, one day, an ample budget (spec scenario 1)
\* ======================================================================
\* Stops with 45 service minutes whose revenue lies below, between and above
\* the marginal costs the cost models and legs give.
SingleStops ==
    { [location_id |-> "L1", revenue |-> r, service_minutes |-> 45] :
        r \in {5000000, 13600000, 13800000, 23700000, 24000000, 100000000} }

SingleInit ==
    /\ stops \in {<<s>> : s \in SingleStops}
    /\ num_days = 1
    /\ cost_model \in CostModels
    /\ leg \in Legs
    /\ absent = {}
    /\ max_minutes_per_day = 480
    /\ RunStart

SpecSingle == SingleInit /\ [][RouteNext]_vars

\* Round trip to the only stop plus the labor of its drive and service
\* minutes, at the exact rates of the cost model.
MarginalCost == DrivenCost(<<1>>)

\* The solver has answered with an assignment that minimises the objective.
SolvedOptimally(coef) ==
    /\ rpc \in {"walk", "returned"}
    /\ solution # <<>>
    /\ Len(stops) = 1 /\ num_days = 1
    /\ solution \in Minimizers(stops, num_days, coef)

\* C12 (as claimed): with one stop, one day and an ample budget, when the
\* stop's marginal cost is strictly above its revenue, every assignment that
\* minimises the formulated objective (of either optimizer) skips the stop.
C12_UnprofitableStopSkipped ==
    \A coef \in GlobalSpanCoefficients :
        (SolvedOptimally(coef) /\ MarginalCost > stops[1].revenue) => solution[1] = <<>>

\* C13 (as claimed): with one stop, one day and an ample budget, when the
\* stop's marginal cost is strictly below its revenue, every assignment that
\* minimises the formulated objective visits the stop, and the returned route
\* reports the profit revenue - marginal cost.
C13_ProfitableStopVisited ==
    \A coef \in GlobalSpanCoefficients :
        (SolvedOptimally(coef) /\ MarginalCost < stops[1].revenue) =>
            /\ solution[1] = <<1>>
            /\ rpc = "returned" =>
                 results[1].total_profit = QuantizeCents(stops[1].revenue - MarginalCost)

\* ----------------------------------------------------------------------
\* The routes the assembler reports for an assignment
\* ----------------------------------------------------------------------
\* The while loop over a whole path: the stops, then the step to the depot.
RECURSIVE Walked(_, _)
Walked(w, p) ==
    IF p = <<>> THEN LoopBody(w, 0) ELSE Walked(LoopBody(w, Head(p)), Tail(p))

\* The RouteOut of vehicle v - 1 for the path p.
Assembled(v, p) == RouteOut(Walked(WalkStart(v - 1), p))

\* Sum of the total_profit of the routes reported for an assignment.
ReportedProfit(sol) == SumSeq([v \in DOMAIN sol |-> Assembled(v, sol[v]).total_profit])

\* C14 (as claimed): for the returned assignment A and any other assignment B
\* of the same instance, A has the strictly lower formulated objective exactly
\* when the routes of A report the strictly higher total profit.
C14_ObjectiveOrdersAsProfit ==
    (rpc = "returned" /\ solution # <<>>) =>
        \A coef \in GlobalSpanCoefficients :
            \A B \in Solutions(stops, num_days) :
                (Objective(stops, solution, coef) < Objective(stops, B, coef))
                    <=> (SumSeq([r \in DOMAIN results |-> results[r].total_profit])
                            > ReportedProfit(B))

\* ======================================================================
\* Absent cells and the time budget (checked under SpecRoute)
\* ======================================================================
Answered == rpc \in {"walk", "returned"} /\ solution # <<>>

\* The legs driven by the vehicles of the solver's answer.
DrivenLegs ==
    UNION {{PathLegs(solution[v])[i] : i \in DOMAIN PathLegs(solution[v])} : v \in DOMAIN solution}

C16_WithinTimeBudget ==
    (rpc = "returned" /\ solution # <<>>) =>
        \A r \in DOMAIN results :
            LET p == solution[results[r].vehicle_index + 1]
            IN  /\ results[r].total_drive_minutes + results[r].total_service_minutes
                     <= max_minutes_per_day
                /\ DrivenMinutes(p) + ServiceMinutes(p) <= max_minutes_per_day

\* Routes are returned under the one-hour budget, which two stops do not fit.
C16_Witness ==
    /\ rpc = "returned" /\ solution # <<>>
    /\ max_minutes_per_day = 60
    /\ Len(stops) = 2
    /\ Visited(solution) # {}

\* ======================================================================
\* What the caller of solve_profit_vrp_with_mapbox receives
\* ======================================================================
\* An exception (line 147 or 84), or the returned list: [] of line 149, or the
\* sorted routes of line 222.
Report ==
    IF rpc = "raised" THEN [kind |-> "raised", exc |-> rexc]
    ELSE [kind |-> "returned", routes |-> results]

\* The list a successful solve with the answer sol returns.
SuccessRoutes(sol) == SortByProfitDesc([v \in DOMAIN sol |-> Assembled(v, sol[v])])

\* The solver gave no solution and the call has returned.
NoSolutionReported == rpc = "returned" /\ solution = <<>>

\* C17 (as claimed): the outcome of "no feasible solution" differs from a
\* solver crash and from the outcome of every successful solve (the one with
\* all stops skipped included), and it carries the day count and the time
\* budget.
C17_NoSolutionDistinctWithContext ==
    NoSolutionReported =>
        /\ Report.kind # "raised"
        /\ \A sol \in Solutions(stops, num_days) : Report.routes # SuccessRoutes(sol)
        /\ {"num_days", "max_minutes_per_day"} \subseteq DOMAIN Report

\* ======================================================================
\* The cost model (costs.py), over every CostModel the dataclass accepts
\* ======================================================================
\* The cost models of the route runs, one whose maintenance exceeds its fuel
\* cost per mile (3.00 / 30 = 0.10 against 0.20), and one with mpg 0, which
\* the dataclass accepts as it validates nothing.
AllCostModels ==
    CostModels \cup
    { [gas_price_per_gallon |-> 3000, mpg |-> 30, maintenance_cost_per_mile |-> 200,
       depreciation_cost_per_mile |-> 0, labor_cost_per_hour |-> 18000000],
      [gas_price_per_gallon |-> 3000, mpg |-> 0, maintenance_cost_per_mile |-> 100,
       depreciation_cost_per_mile |-> 0, labor_cost_per_hour |-> 18000000] }

CostInit ==
    /\ stops \in UNION {[1 .. k -> StopCatalog] : k \in 0 .. 1}
    /\ num_days = 1
    /\ cost_model \in AllCostModels
    /\ leg \in Legs
    /\ absent = {}
    /\ max_minutes_per_day = 480
    /\ RunStart

SpecCost == CostInit /\ [][RouteNext]_vars

\* C18 (as claimed): a cost model with mpg <= 0 never lets a division-by-zero
\* error leave the optimization run.
C18_NoDivisionByZero ==
    cost_model.mpg <= 0 => rexc # "ZeroDivisionError"

\* gas price, maintenance, depreciation and labor rate are not negative (the
\* data model's invariant on rates).
RatesNonNegative(cm) ==
    /\ cm.gas_price_per_gallon >= 0
    /\ cm.maintenance_cost_per_mile >= 0
    /\ cm.depreciation_cost_per_mile >= 0
    /\ cm.labor_cost_per_hour >= 0

MaxGeoN == 3

\* Points on one meridian, by their latitude in hundredths of a degree.
GeoPoints == 0 .. 3

\* Great-circle length of 0.01 degree of latitude at R = 3958.7613 miles, in
\* millionths of a mile.
MicroMilesPerStep == 690934

Abs(x) == IF x < 0 THEN -x ELSE x

\* haversine_miles(a, b) for two points of one meridian, in millionths of a
\* mile: R times the angle between them.
HaversineMiles(a, b) == Abs(b - a) * MicroMilesPerStep

\* The cell with the distance taken from the first point instead of point i.
CellMilesFpFromFirst(cs, i, j) ==
    IF i = j THEN 0 ELSE HaversineMiles(cs[1], cs[j]) \div 1000

\* Lines 60-64: mat[i][j], int(miles * 1000) off the diagonal
CellMilesFp(cs, i, j) ==
    IF i = j THEN 0 ELSE HaversineMiles(cs[i], cs[j]) \div 1000

\* build_distance_matrix_miles(coords)
BuildDistanceMatrixMiles(cs) ==
    [i \in 1 .. Len(cs) |-> [j \in 1 .. Len(cs) |-> CellMilesFp(cs, i, j)]]

GeoInit ==
    /\ geo_coords \in UNION {[1 .. k -> GeoPoints] : k \in 0 .. MaxGeoN}
    /\ geo_mat = [called |-> FALSE, mat |-> <<>>]
    /\ num_days \in DayCounts
    /\ AssemblerIdle
    /\ FetchDone
    /\ PlanIdle

\* optimizer.py line 71: dist_fp = build_distance_matrix_miles(coords)
BuildMatrix ==
    /\ ~geo_mat.called
    /\ ~DaysRejected(num_days)
    /\ geo_mat' = [called |-> TRUE, mat |-> BuildDistanceMatrixMiles(geo_coords)]
    /\ UNCHANGED <<geo_coords, fetchVars, routeVars, planVars>>

\* optimizer.py lines 66-67: the check of the day count raises ValueError.
VrpRejectDays ==
    /\ ~geo_mat.called
    /\ rexc = "none"
    /\ DaysRejected(num_days)
    /\ rexc' = "ValueError"
    /\ UNCHANGED <<routeInputs, rpc, solution, walk, results, fetchVars, geoVars, planVars>>

GeoNext == BuildMatrix \/ VrpRejectDays

SpecGeo == GeoInit /\ [][GeoNext]_vars

\* C20: the matrix build_distance_matrix_miles returns is symmetric and has a
\* zero diagonal.
C20_MatrixSymmetricZeroDiagonal ==
    geo_mat.called =>
        \A i, j \in 1 .. Len(geo_coords) :
            /\ geo_mat.mat[i][j] = geo_mat.mat[j][i]
            /\ geo_mat.mat[i][i] = 0

\* A matrix of three points, the first two distinct, has been built.
C20_Witness ==
    /\ geo_mat.called
    /\ Len(geo_coords) = 3
    /\ geo_mat.mat[1][2] > 0
    /\ geo_mat.mat[2][3] # geo_mat.mat[1][3]

\* ======================================================================
\* Part 3: the run endpoint and the background run of one route plan
\* (routers/optimization.py lines 15-33, workers/tasks.py lines 13-73).
\* Every action is one callback of the serving event loop, from one await to
\* the next, except the end of the solve, which happens where the solve runs.
\* ======================================================================
MaxReq == 2

Requests == DOMAIN handler

PlanInit ==
    /\ plan_status \in {"draft", "complete"}
    /\ \E k \in 1 .. MaxReq :
         /\ handler = [q \in 1 .. k |-> "pending"]
         /\ runs = [q \in 1 .. k |-> "none"]
    /\ RouteIdle
    /\ FetchDone
    /\ GeoIdle

\* The solve running on the serving event loop itself.
SolveDispatchInline == "loop"

\* tasks.py lines 54-65: asyncio.to_thread(lambda: asyncio.run(solve...)), the
\* whole solve call (matrix fetch and solver) runs in a worker thread with an
\* event loop of its own.
SolveDispatch == "thread"

\* The serving event loop is inside a synchronous call and runs no callback.
LoopBlocked == \E r \in Requests : runs[r] = "solving" /\ SolveDispatch = "loop"

\* optimize_route_plan (lines 16-33): after the awaited select nothing
\* suspends: the status check, the 409 or create_task, the return.
OptimizeRoutePlan(q) ==
    /\ ~LoopBlocked
    /\ handler[q] = "pending"
    /\ IF plan_status = "running"
       THEN /\ handler' = [handler EXCEPT ![q] = "rejected"]
            /\ UNCHANGED runs
       ELSE /\ handler' = [handler EXCEPT ![q] = "queued"]
            /\ runs' = [runs EXCEPT ![q] = "created"]
    /\ UNCHANGED <<plan_status, fetchVars, routeVars, geoVars>>

\* _runner starts run_route_optimization: lines 14-47, the selects and the
\* cost model.
RunBegin(r) ==
    /\ ~LoopBlocked
    /\ runs[r] = "created"
    /\ runs' = [runs EXCEPT ![r] = "loading"]
    /\ UNCHANGED <<plan_status, handler, fetchVars, routeVars, geoVars>>

\* Lines 14-18: a scalar_one() finds no row (a company without a vehicle or
\* crew) and raises; _runner swallows the exception.
RunLoadRaise(r) ==
    /\ ~LoopBlocked
    /\ runs[r] = "loading"
    /\ runs' = [runs EXCEPT ![r] = "swallowed"]
    /\ UNCHANGED <<plan_status, handler, fetchVars, routeVars, geoVars>>

\* Lines 49-50: plan.status = "running" and the commit.
RunMarkRunning(r) ==
    /\ ~LoopBlocked
    /\ runs[r] = "loading"
    /\ plan_status' = "running"
    /\ runs' = [runs EXCEPT ![r] = "committed"]
    /\ UNCHANGED <<handler, fetchVars, routeVars, geoVars>>

\* Line 54: the commit has returned and the solve is dispatched.
RunDispatch(r) ==
    /\ ~LoopBlocked
    /\ runs[r] = "committed"
    /\ runs' = [runs EXCEPT ![r] = "solving"]
    /\ UNCHANGED <<plan_status, handler, fetchVars, routeVars, geoVars>>

\* The solve call ends with the list of routes.
SolveReturn(r) ==
    /\ runs[r] = "solving"
    /\ runs' = [runs EXCEPT ![r] = "solved"]
    /\ UNCHANGED <<plan_status, handler, fetchVars, routeVars, geoVars>>

\* The solve call ends with an exception (the fetch raised, the cost model
\* divided by zero, the solver crashed); the await of line 54 re-raises it
\* and _runner (router lines 26-30) swallows it.
SolveRaise(r) ==
    /\ runs[r] = "solving"
    /\ runs' = [runs EXCEPT ![r] = "swallowed"]
    /\ UNCHANGED <<plan_status, handler, fetchVars, routeVars, geoVars>>

\* Lines 70-73: plan.status = "complete" and the commit.
RunComplete(r) ==
    /\ ~LoopBlocked
    /\ runs[r] = "solved"
    /\ plan_status' = "complete"
    /\ runs' = [runs EXCEPT ![r] = "complete"]
    /\ UNCHANGED <<handler, fetchVars, routeVars, geoVars>>

PlanNext ==
    \/ \E q \in Requests : OptimizeRoutePlan(q)
    \/ \E r \in Requests : RunBegin(r)
    \/ \E r \in Requests : RunLoadRaise(r)
    \/ \E r \in Requests : RunMarkRunning(r)
    \/ \E r \in Requests : RunDispatch(r)
    \/ \E r \in Requests : SolveReturn(r)
    \/ \E r \in Requests : SolveRaise(r)
    \/ \E r \in Requests : RunComplete(r)

SpecPlan == PlanInit /\ [][PlanNext]_vars

PathOf(route) == solution[route.vehicle_index + 1]

\* C22: the route of a vehicle that visits no stop has an empty stop list and
\* zero miles, drive minutes, service minutes, revenue, cost and profit.
C22_EmptyRouteIsAllZero ==
    (rpc = "returned" /\ solution # <<>>) =>
        \A r \in DOMAIN results :
            PathOf(results[r]) = <<>> =>
                /\ results[r].stops = <<>>
                /\ results[r].total_miles = 0
                /\ results[r].total_drive_minutes = 0
                /\ results[r].total_service_minutes = 0
                /\ results[r].total_revenue = 0
                /\ results[r].total_cost = 0
                /\ results[r].total_profit = 0

\* Vehicle 0 visits a stop five miles away and vehicle 1 visits none.
C22_Witness ==
    /\ rpc = "returned" /\ solution # <<>>
    /\ num_days = 2
    /\ solution[1] # <<>> /\ solution[2] = <<>>
    /\ leg.m > 0

\* ======================================================================
\* The status check of fetch_matrix (checked under Spec)
\* ======================================================================
\* The status the provider answers the request of task t with.
TaskStatus(t) == StatusCode(IF faultAt = t THEN faultKind ELSE "ok")

\* The request of task t has been answered and fetch_matrix has dealt with
\* the response.
Responded(t) ==
    /\ phase[t] \in {"done", "failed"}
    /\ err[t] \in {"none", "status", "status204", "index"}

StatusFailure(t) ==
    /\ phase[t] = "failed"
    /\ err[t] \in {"status", "status204"}
    /\ ExcType(err[t]) = "MapboxMatrixError"

\* No cell of the block of task t has been assigned.
NothingTaken(t) ==
    \A c \in BlockCells(t) : writes[c] = 0 /\ durations[c] = Null /\ distances[c] = Null

\* C23 (as claimed): a response with a non-2xx status fails the call with
\* MapboxMatrixError and no value is taken from it; every 2xx response is
\* accepted as a result.
C23_Original ==
    \A t \in TaskIds : Responded(t) =>
        IF TaskStatus(t) >= 200 /\ TaskStatus(t) < 300
        THEN ~StatusFailure(t)
        ELSE StatusFailure(t) /\ NothingTaken(t)

\* C23 (amended): a response with a status other than 200, the other 2xx
\* included, fails the call with MapboxMatrixError and no value is taken
\* from it; a 200 response is accepted as a result.
C23_Only200Accepted ==
    \A t \in TaskIds : Responded(t) =>
        IF TaskStatus(t) = 200
        THEN ~StatusFailure(t)
        ELSE StatusFailure(t) /\ NothingTaken(t)

\* One request was answered 204 and failed, another was answered 200 and its
\* block was stitched.
C23_Witness ==
    \E t, u \in TaskIds :
        /\ TaskStatus(t) = 204 /\ StatusFailure(t)
        /\ TaskStatus(u) = 200 /\ phase[u] = "done"

\* C24: the returned list is ordered by non-increasing total_profit, and
\* routes of equal total_profit stay in vehicle-index order.
C24_SortedByProfitStable ==
    rpc = "returned" =>
        \A a, b \in DOMAIN results : a < b =>
            /\ results[a].total_profit >= results[b].total_profit
            /\ results[a].total_profit = results[b].total_profit =>
                 results[a].vehicle_index < results[b].vehicle_index

\* The sort moved the route of vehicle 1 to the front.
C24_Witness ==
    /\ rpc = "returned" /\ Len(results) = 2
    /\ results[1].vehicle_index = 1
    /\ results[1].total_profit > results[2].total_profit

\* C25 (as claimed): for every returned route with a stop, total_drive_minutes
\* is the sum of the stops' segment_drive_minutes plus the drive minutes of
\* the leg from the last stop back to the depot; the stop records are the
\* visited nodes in visiting sequence, numbered 1..k, none for the depot.
C25_DriveMinutesIncludeReturnLeg ==
    (rpc = "returned" /\ solution # <<>>) =>
        \A r \in DOMAIN results :
            LET p  == PathOf(results[r])
                rs == results[r].stops
            IN  p # <<>> =>
                  /\ Len(rs) = Len(p)
                  /\ \A k \in DOMAIN rs :
                        rs[k].order = k /\ rs[k].location_id = stops[p[k]].location_id
                  /\ results[r].total_drive_minutes
                        = SumSeq([k \in DOMAIN rs |-> rs[k].segment_drive_minutes])
                            + RoadMinutes(p[Len(p)], 0)

InProgress(r) == runs[r] \in {"loading", "committed", "solving", "solved"}

\* C27 (as claimed): at most one run of the plan is in progress at any time
\* (a request handled after a run has started is rejected with 409 and starts
\* no second run).
C27_AtMostOneRun ==
    Cardinality({r \in Requests : InProgress(r)}) <= 1

\* The event loop runs every callback that is ready and a dispatched solve
\* ends: no step that can be taken is put off forever.
SpecPlanFair == SpecPlan /\ WF_vars(PlanNext)

\* C28 (as claimed): whenever the committed status of the plan is "running",
\* it later becomes something else, also when the solve raises.
C28_RunningIsLeft ==
    (plan_status = "running") ~> (plan_status # "running")

\* Every request that was sent is answered or fails, and the event loop runs
\* every task that is ready: no step that can be taken is put off forever.
\* The calls with one day asked for; a block that fails does so by its status.
MaxFairN == 2
MaxFairBlocks == 4

InitFair ==
    /\ Init
    /\ n <= MaxFairN
    /\ NumTasks(n, maxCoords) <= MaxFairBlocks
    /\ num_days = 1
    /\ faultKind = "status"

SpecFair == InitFair /\ [][Next]_vars /\ WF_vars(Next)

\* The slots of the semaphore of line 107: the free ones and the ones held by
\* the tasks between `async with sem` and its exit.
SlotsConserved ==
    tasks # <<>> => sem + Cardinality(InFlight) = maxConcurrent

\* C29: the call of fetch_full_square_matrix_chunked ends, by a return or by an
\* exception, and every task has given its slot back once it left the block.
C29_FetchTerminates ==
    /\ []SlotsConserved
    /\ (caller = "awaiting") ~> (pc \in {"returned", "raised"})

\* More blocks than slots: the call has returned with every block answered, so
\* slots freed by earlier tasks were taken again by later ones.
C29_Witness ==
    /\ pc = "returned"
    /\ sent > maxConcurrent
    /\ sem = maxConcurrent

\* The positions of the returned list that hold the route of vehicle v.
RoutesOfVehicle(v) == {r \in 1 .. Len(results) : results[r].vehicle_index = v}

\* C30: a call that returns with a solution returns num_days routes, one for
\* each vehicle_index 0 .. num_days - 1, the days without a stop included; the
\* returned list is empty only when the solver found no solution.
C30_OneRoutePerDay ==
    rpc = "returned" =>
        /\ solution # <<>> =>
              /\ Len(results) = num_days
              /\ \A v \in 0 .. num_days - 1 : Cardinality(RoutesOfVehicle(v)) = 1
        /\ results = <<>> => solution = <<>>

\* Two days, one with a stop and one without, both in the returned list.
C30_Witness ==
    /\ rpc = "returned"
    /\ solution # <<>>
    /\ num_days >= 2
    /\ \E r \in 1 .. Len(results) : results[r].stops = <<>>
    /\ \E r \in 1 .. Len(results) : results[r].stops # <<>>

====
